---- MODULE Spec2Model ----
(***************************************************************************)
(* A model of app.py, the Streamlit subtitle downloader.                   *)
(*                                                                         *)
(* Streamlit re-executes the whole script on every user interaction, so    *)
(* every action below is one complete script run (lines 98-259), preceded  *)
(* by the on_change callback of the widget that triggered it.              *)
(*                                                                         *)
(* Strings are sequences of tokens (a token is a character or an atom such *)
(* as a language code), so that formatting, sanitising, splitting and      *)
(* stripping are computed and not assumed.                                 *)
(***************************************************************************)
EXTENDS Naturals, Sequences, FiniteSets, TLC

VARIABLES
    url,              \* value of the text input (line 106)
    format_choice,    \* value of the format radio (line 148)
    select_all,       \* value of the select-all checkbox (line 155)
    multiselect,      \* value of the multiselect (line 161): a set of labels (the
                      \* code reads its length and, through subs_map, its codes)
    video_info,       \* st.session_state.video_info
    last_url,         \* st.session_state.last_url
    processed_files,  \* st.session_state.processed_files
    page,             \* what the last script run rendered
    produced_from,    \* history: the inputs of the run that assigned processed_files
    download_result,  \* history: what ydl.download did in the last run, if it ran
    last_run,         \* history: what triggered the last run, and the session before it
    extracted,        \* SpecCatalog: an answer of ydl.extract_info
    catalog           \* SpecCatalog: what get_video_info returns for it

vars == <<url, format_choice, select_all, multiselect, video_info, last_url,
          processed_files, page, produced_from, download_result, last_run,
          extracted, catalog>>

----------------------------------------------------------------------------
(* Bounds and input domains *)

\* Number of language codes the metadata collaborator may report.
MaxLangs == 2

LangPool == <<"en", "fr", "de", "es">>

Langs == {LangPool[i] : i \in 1..MaxLangs}

\* Python's None, for the values that are otherwise records.
None == [none |-> TRUE]

\* processed_files is None or a non-empty list: line 229 stores only a
\* non-empty list and line 235 tests only truthiness, so None is <<>>.
NoFiles == <<>>

\* The values the text input takes: empty, blank, and two video links.
Url1 == <<"https://youtu.be/", "v1">>

Url2 == <<"https://youtu.be/", "v2">>

Urls == {<<>>, <<" ">>, Url1, Url2}

\* The title the collaborator reports for a video id.
TitleOf(id) == IF id = "v1" THEN <<"A", "/", "B", "?">> ELSE <<"C", " ", "d">>

\* The display name of a language.
NameOf(lang) == IF lang = "en" THEN <<"English">>
                ELSE IF lang = "fr" THEN <<"French">>
                ELSE IF lang = "de" THEN <<"German">>
                ELSE <<"Spanish">>

\* The languages whose tracks carry a 'name' key in the session runs.
NamedLangs == {"en", "de"}

Formats == {"SRT (SubRip - Recommended)", "Raw (VTT - Original)",
            "Text Only (No Timestamps)"}

DefaultFormat == "SRT (SubRip - Recommended)"

----------------------------------------------------------------------------
(* Generic helpers *)

Range(s) == {s[i] : i \in 1..Len(s)}

RECURSIVE Filter(_, _)
\* The subsequence of s whose elements are in the set keep.
Filter(s, keep) ==
    IF s = <<>> THEN <<>>
    ELSE (IF Head(s) \in keep THEN <<Head(s)>> ELSE <<>>) \o Filter(Tail(s), keep)

\* All orderings of the finite set S.
Perms(S) == {p \in [1..Cardinality(S) -> S] : \A x \in S : \E i \in DOMAIN p : p[i] = x}

\* The track lists of a set of languages, in pool order: what
\* info['subtitles'].items() iterates (lang, tracks[0]).
TracksOf(S) ==
    LET ordered == Filter(LangPool, S)
    IN  [i \in 1..Len(ordered) |->
            IF ordered[i] \in NamedLangs
            THEN [lang |-> ordered[i], name |-> NameOf(ordered[i])]
            ELSE [lang |-> ordered[i]]]

----------------------------------------------------------------------------
(* get_video_info, lines 37-67 *)

\* tracks[0].get('name', lang)
track_name(t) == IF "name" \in DOMAIN t THEN t.name ELSE <<t.lang>>

manual_label(t) == track_name(t) \o <<" (", t.lang, ")">>

auto_label(t) == track_name(t) \o <<" (", t.lang, ")", " [Auto-generated]">>

\* subs.values()
dict_values(d) == {d[i].lang : i \in 1..Len(d)}

\* subs[label] = lang on an insertion-ordered dict: an existing key keeps
\* its position and takes the new value, a new key is appended.
dict_set(d, label, lang) ==
    IF \E i \in 1..Len(d) : d[i].label = label
    THEN [i \in 1..Len(d) |-> IF d[i].label = label
                              THEN [label |-> label, lang |-> lang] ELSE d[i]]
    ELSE Append(d, [label |-> label, lang |-> lang])

RECURSIVE add_manual(_, _)
\* lines 46-49
add_manual(subs, tracks) ==
    IF tracks = <<>> THEN subs
    ELSE add_manual(dict_set(subs, manual_label(Head(tracks)), Head(tracks).lang),
                    Tail(tracks))

\* A catalog builder that forgets the test of line 55.
auto_entry_nodedup(subs, t) == dict_set(subs, auto_label(t), t.lang)

\* lines 53-56: one iteration of the automatic_captions loop
auto_entry(subs, t) ==
    IF t.lang \notin dict_values(subs)
    THEN dict_set(subs, auto_label(t), t.lang)
    ELSE subs

RECURSIVE add_auto(_, _)
\* lines 51-56
add_auto(subs, tracks) ==
    IF tracks = <<>> THEN subs
    ELSE add_auto(auto_entry(subs, Head(tracks)), Tail(tracks))

\* lines 44-56
available_subs(info) == add_auto(add_manual(<<>>, info.subtitles), info.automatic_captions)

\* lines 37-67: raw is the answer of ydl.extract_info, or None when it raised.
get_video_info(raw) ==
    IF raw = None THEN None
    ELSE [id |-> raw.id, title |-> raw.title, available_subs |-> available_subs(raw)]

\* The languages the video behind a link has tracks in: any of Langs for
\* the first video, the first language only for the second.
LangsOf(u) == IF u[Len(u)] = "v1" THEN Langs ELSE {LangPool[1]}

\* The answers of ydl.extract_info(url) for a video link: the id in the
\* link, its title, and any manual and automatic tracks; None when it raises.
Extracts(u) ==
    {None} \cup
    {[id |-> u[Len(u)], title |-> TitleOf(u[Len(u)]),
      subtitles |-> TracksOf(m), automatic_captions |-> TracksOf(a)] :
        m \in SUBSET LangsOf(u), a \in SUBSET LangsOf(u)}

----------------------------------------------------------------------------
(* clean_filename, lines 69-71 *)

IllegalChars == {"\\", "/", "*", "?", ":", "\"", "<", ">", "|"}

clean_filename(title) == SelectSeq(title, LAMBDA c : c \notin IllegalChars)

----------------------------------------------------------------------------
(* srt_to_text, lines 77-95.  A document is a sequence of lines, a line a  *)
(* sequence of tokens.                                                     *)

Whitespace == {" ", "\t"}

Digits == {"0", "1", "2", "3", "4", "5", "6", "7", "8", "9"}

\* The tokens re.sub(r'<[^>]+>', '', text) removes.
Tags == {"<i>", "</i>", "<b>", "</b>"}

RECURSIVE lstrip(_)
lstrip(s) == IF s # <<>> /\ Head(s) \in Whitespace THEN lstrip(Tail(s)) ELSE s

RECURSIVE rstrip(_)
rstrip(s) == IF s # <<>> /\ s[Len(s)] \in Whitespace
             THEN rstrip(SubSeq(s, 1, Len(s) - 1)) ELSE s

\* str.strip()
strip(s) == rstrip(lstrip(s))

\* str.isdigit()
isdigit(s) == s # <<>> /\ \A i \in 1..Len(s) : s[i] \in Digits

\* lines 86-93: whether the loop keeps the stripped line
keeps_line(stripped) ==
    /\ stripped # <<>>
    /\ ~isdigit(stripped)
    /\ "-->" \notin Range(stripped)

RECURSIVE clean_lines(_)
clean_lines(lines) ==
    IF lines = <<>> THEN <<>>
    ELSE LET stripped == strip(Head(lines))
         IN  (IF keeps_line(stripped) THEN <<stripped>> ELSE <<>>)
             \o clean_lines(Tail(lines))

srt_to_text(srt) ==
    clean_lines([i \in 1..Len(srt) |-> SelectSeq(srt[i], LAMBDA t : t \notin Tags)])

----------------------------------------------------------------------------
(* Session state, lines 73-75 and 98-123.  A session state is the record   *)
(* [video_info, last_url, processed_files].                                *)

\* A callback that leaves the generated files in place.
keep_processed_cache(files) == files

\* lines 73-75: the on_change callback of the radio, checkbox and multiselect
clear_processed_cache(files) == NoFiles

\* A reset that forgets the generated files.
url_change_reset_keeps_files(ss, u) ==
    IF u # ss.last_url
    THEN [video_info |-> None, processed_files |-> ss.processed_files, last_url |-> u]
    ELSE ss

\* lines 108-111
url_change_reset(ss, u) ==
    IF u # ss.last_url
    THEN [video_info |-> None, processed_files |-> NoFiles, last_url |-> u]
    ELSE ss

\* A Start handler that drops the session's metadata and files on a failed fetch.
start_button_clears_on_failure(ss, u, info) ==
    IF strip(u) = <<>>
    THEN [ss |-> ss, warning |-> TRUE, error |-> FALSE]
    ELSE IF info # None
    THEN [ss |-> [ss EXCEPT !.video_info = info, !.processed_files = NoFiles],
         warning |-> FALSE, error |-> FALSE]
    ELSE [ss |-> [ss EXCEPT !.video_info = None, !.processed_files = NoFiles],
         warning |-> FALSE, error |-> TRUE]

\* A Start handler that forgets line 121.
start_button_keeps_files(ss, u, info) ==
    IF strip(u) = <<>>
    THEN [ss |-> ss, warning |-> TRUE, error |-> FALSE]
    ELSE IF info # None
    THEN [ss |-> [ss EXCEPT !.video_info = info],
         warning |-> FALSE, error |-> FALSE]
    ELSE [ss |-> ss, warning |-> FALSE, error |-> TRUE]

\* lines 113-123: the body of "if st.button('Start')"; info is what
\* get_video_info(url) returns on line 118.
start_button(ss, u, info) ==
    IF strip(u) = <<>>
    THEN [ss |-> ss, warning |-> TRUE, error |-> FALSE]
    ELSE IF info # None
    THEN [ss |-> [ss EXCEPT !.video_info = info, !.processed_files = NoFiles],
         warning |-> FALSE, error |-> FALSE]
    ELSE [ss |-> ss, warning |-> FALSE, error |-> TRUE]

----------------------------------------------------------------------------
(* The Process Subtitles handler, lines 170-232 *)

\* list(subs_map.keys()), line 145
all_langs(info) == [i \in 1..Len(info.available_subs) |-> info.available_subs[i].label]

\* subs_map[label], line 173
subs_lookup(info, label) ==
    (CHOOSE e \in Range(info.available_subs) : e.label = label).lang

\* line 173
selected_lang_codes(info, selected) ==
    [i \in 1..Len(selected) |-> subs_lookup(info, selected[i])]

\* lines 186-193
target_ext(fmt) == IF fmt = "Raw (VTT - Original)" THEN "vtt" ELSE "srt"

\* lines 210-216
final_ext(fmt) ==
    IF fmt = "Text Only (No Timestamps)" THEN "txt"
    ELSE IF fmt = "Raw (VTT - Original)" THEN "vtt"
    ELSE "srt"

\* The caption document of one track as the collaborator writes it.
Document(lang, ext) ==
    IF ext = "srt"
    THEN << <<"1">>,
            <<"00:01", " ", "-->", " ", "00:02">>,
            <<" ", "<i>", "caption", "-", lang, "</i>">>,
            <<>> >>
    ELSE << <<"WEBVTT">>,
            <<>>,
            <<"00:01", " ", "-->", " ", "00:02">>,
            <<"caption", "-", lang>> >>

\* The extension of the files the collaborator leaves when it does not
\* deliver the requested format: the unconverted vtt when the converter is
\* missing, or another native format.
FallbackExt(ext) == IF ext = "srt" THEN "vtt" ELSE "ttml"

\* The file the collaborator writes for a language: {id}.{lang}.{ext}
SubtitleFile(id, lang, ext) ==
    [name |-> <<id, ".", lang, ".", ext>>, data |-> Document(lang, ext)]

\* The video id the collaborator resolves a link to.
VideoId(u) == IF Len(u) = 2 THEN u[2] ELSE "unknown"

\* The directories ydl.download([url]) may leave for the requested
\* languages: a file for any of them, all in the requested format or all in
\* the fallback format.
Directories(u, codes, ext) ==
    {{SubtitleFile(VideoId(u), c, e) : c \in written} :
        written \in SUBSET codes, e \in {ext, FallbackExt(ext)}}

\* The outcomes of ydl.download([url]): the call returns, and os.listdir
\* (line 200) gives the directory in any order, or it raises, and the
\* directory is never listed.
Downloads(u, codes, ext) ==
    {[raised |-> FALSE, listing |-> l] :
        l \in UNION {Perms(d) : d \in Directories(u, codes, ext)}}
    \cup {[raised |-> TRUE, listing |-> CHOOSE l \in Perms(d) : TRUE] :
             d \in Directories(u, codes, ext)}

\* No download in this run.
NoDownload == [raised |-> FALSE, listing |-> <<>>]

RECURSIVE split(_, _)
\* str.split(sep): the pieces between the separator tokens
split(s, sep) ==
    IF \A i \in 1..Len(s) : s[i] # sep THEN <<s>>
    ELSE LET k == CHOOSE i \in 1..Len(s) : s[i] = sep /\ \A j \in 1..(i - 1) : s[j] # sep
         IN  <<SubSeq(s, 1, k - 1)>> \o split(SubSeq(s, k + 1, Len(s)), sep)

\* file.endswith(target_ext), line 201, target_ext being "." + ext
endswith(name, ext) ==
    Len(name) >= 2 /\ name[Len(name) - 1] = "." /\ name[Len(name)] = ext

\* A language-code rule that asks for four parts.
lang_code_four_parts(name) ==
    LET parts == split(name, ".")
    IN  IF Len(parts) >= 4 THEN parts[Len(parts) - 1] ELSE <<"sub">>

\* lines 206-207
lang_code(name) ==
    LET parts == split(name, ".")
    IN  IF Len(parts) >= 3 THEN parts[Len(parts) - 1] ELSE <<"sub">>

\* A naming rule that always adds the language suffix.
final_name_always_suffix(safe_title, n_selected, code, ext) ==
    safe_title \o <<" [">> \o code \o <<"].", ext>>

\* lines 219-222
final_name(safe_title, n_selected, code, ext) ==
    IF n_selected = 1
    THEN safe_title \o <<".", ext>>
    ELSE safe_title \o <<" [">> \o code \o <<"].", ext>>

\* lines 202-224: the entry made of one listed file
processed_entry(file, safe_title, n_selected, fmt) ==
    [name |-> final_name(safe_title, n_selected, lang_code(file.name), final_ext(fmt)),
     data |-> IF fmt = "Text Only (No Timestamps)"
              THEN srt_to_text(file.data) ELSE file.data]

RECURSIVE scan_directory(_, _, _, _)
\* lines 199-224
scan_directory(listing, safe_title, n_selected, fmt) ==
    IF listing = <<>> THEN <<>>
    ELSE (IF endswith(Head(listing).name, target_ext(fmt))
          THEN <<processed_entry(Head(listing), safe_title, n_selected, fmt)>>
          ELSE <<>>)
         \o scan_directory(Tail(listing), safe_title, n_selected, fmt)

\* lines 171-232: the body of "if st.button('Process Subtitles')"; dl is the
\* outcome of ydl.download([url]).
process_button(ss, info, selected, fmt, dl) ==
    LET safe_title == clean_filename(info.title)
        processed  == scan_directory(dl.listing, safe_title, Len(selected), fmt)
    IN  IF dl.raised
        THEN [ss |-> ss, error |-> "exception", stored |-> FALSE]
        ELSE IF processed = <<>>
        THEN [ss |-> ss, error |-> "empty", stored |-> FALSE]
        ELSE [ss |-> [ss EXCEPT !.processed_files = processed],
              error |-> "none", stored |-> TRUE]

----------------------------------------------------------------------------
(* Delivery, lines 235-259 *)

\* The archive zipfile.ZipFile(.., "w", ZIP_DEFLATED) holds after the
\* writestr calls of lines 251-252.
zip_archive(files) == [compression |-> "deflate", entries |-> files]

\* An offer that zips only from three files on.
download_offer_late_zip(info, files) ==
    IF Len(files) <= 2
    THEN [kind |-> "file", file_name |-> files[1].name, data |-> files[1].data,
          mime |-> "text/plain"]
    ELSE [kind |-> "zip", file_name |-> clean_filename(info.title) \o <<"_Subtitles.zip">>,
          data |-> zip_archive(files), mime |-> "application/zip"]

\* lines 237-259: the download button rendered for a non-empty file list
download_offer(info, files) ==
    IF Len(files) = 1
    THEN [kind |-> "file", file_name |-> files[1].name, data |-> files[1].data,
          mime |-> "text/plain"]
    ELSE [kind |-> "zip", file_name |-> clean_filename(info.title) \o <<"_Subtitles.zip">>,
          data |-> zip_archive(files), mime |-> "application/zip"]

----------------------------------------------------------------------------
(* One script run, lines 98-259 *)

\* default=[all_langs[0]] if all_langs else [], line 164
multiselect_default(options) == IF options = <<>> THEN {} ELSE {options[1]}

\* "if st.session_state.video_info" and "if not subs_map ... else", lines
\* 126 and 142-144: whether the subtitle settings are rendered for info
settings_rendered(info) == info # None /\ info.available_subs # <<>>

\* The value st.multiselect returns (lines 161-166): the value sent by the
\* browser when the previous run rendered the same widget, that is with the
\* same options, and the default otherwise.  A multiselect that a run does
\* not render (select_all, line 157) is stored with its default, which is
\* what it returns when it is rendered again.
multiselect_value(before, info, ms) ==
    IF settings_rendered(before) /\ all_langs(before) = all_langs(info)
    THEN ms
    ELSE multiselect_default(all_langs(info))

\* lines 157-166: selected_langs, the picked labels taken in option order
selected_of(info, sa, ms_value) ==
    IF sa THEN all_langs(info) ELSE Filter(all_langs(info), ms_value)

\* The state of the session state machine: empty, metadata-loaded, processed.
session_phase ==
    IF video_info = None THEN "empty"
    ELSE IF processed_files = NoFiles THEN "metadata-loaded"
    ELSE "processed"

BlankPage ==
    [start_warning |-> FALSE, fetch_error |-> FALSE, metadata |-> FALSE,
     no_subs_warning |-> FALSE, process_error |-> "none", success |-> FALSE,
     download |-> None]

\* The script run that trigger causes ("url", "start", "format",
\* "select_all", "multiselect", "process" or "rerun"; the Start and Process
\* buttons return True in the run their click triggers), with the widget
\* values u, fmt, sa and ms, files the processed_files left by the on_change
\* callback if one ran, fetched what get_video_info(url) returns and dl the
\* outcome of ydl.download should the run call them.  (Each intermediate
\* value is bound by \E over a singleton, so that it is computed once.)
script_run(trigger, u, fmt, sa, ms, files, fetched, dl) ==
    \E st \in {IF trigger = "start"
               THEN start_button(url_change_reset([video_info |-> video_info,
                                                   last_url |-> last_url,
                                                   processed_files |-> files], u),
                                 u, fetched)
               ELSE [ss |-> url_change_reset([video_info |-> video_info,
                                              last_url |-> last_url,
                                              processed_files |-> files], u),
                     warning |-> FALSE, error |-> FALSE]} :
    \E info \in {st.ss.video_info} :
    \E settings \in {settings_rendered(info)} :
    \E ms_value \in {IF settings THEN multiselect_value(video_info, info, ms) ELSE {}} :
    \E selected \in {IF settings THEN selected_of(info, sa, ms_value) ELSE <<>>} :
    \E button \in {settings /\ selected # <<>>} :
    \E pr \in {IF button /\ trigger = "process"
               THEN process_button(st.ss, info, selected, fmt, dl)
               ELSE [ss |-> st.ss, error |-> "none", stored |-> FALSE]} :
    \E offer \in {button /\ pr.ss.processed_files # NoFiles} :
        /\ url' = u
        /\ video_info' = pr.ss.video_info
        /\ last_url' = pr.ss.last_url
        /\ processed_files' = pr.ss.processed_files
        /\ format_choice' = IF settings THEN fmt ELSE DefaultFormat
        /\ select_all' = IF settings THEN sa ELSE FALSE
        /\ multiselect' = IF ~settings THEN {}
                          ELSE IF sa THEN multiselect_default(all_langs(info))
                          ELSE ms_value
        /\ page' = [start_warning   |-> st.warning,
                    fetch_error     |-> st.error,
                    metadata        |-> info # None,
                    no_subs_warning |-> info # None /\ ~settings,
                    process_error   |-> pr.error,
                    success         |-> offer,
                    download        |-> IF offer
                                        THEN download_offer(info, pr.ss.processed_files)
                                        ELSE None]
        /\ produced_from' =
               IF pr.ss.processed_files = NoFiles THEN None
               ELSE IF pr.stored
               THEN [url |-> u, info |-> info, format |-> fmt, selected |-> selected]
               ELSE produced_from
        /\ download_result' =
               IF button /\ trigger = "process"
               THEN [raised   |-> dl.raised,
                     selected |-> Range(selected_lang_codes(info, selected)),
                     written  |-> {f.name[3] : f \in {g \in Range(dl.listing) :
                                                 endswith(g.name, target_ext(fmt))}}]
               ELSE None
        /\ last_run' = [trigger |-> trigger, prior |-> session_phase]
        /\ UNCHANGED <<extracted, catalog>>

----------------------------------------------------------------------------
(* The user's interactions, each of which triggers a script run *)

\* The selection the page of the last run shows (lines 157-166).
selected_langs == selected_of(video_info, select_all, multiselect)

\* The user edits the link (line 106).
EditUrl ==
    \E u \in Urls \ {url} :
        script_run("url", u, format_choice, select_all, multiselect, processed_files,
                   None, NoDownload)

\* The user clicks Start (line 113), possibly with an edit of the link that
\* the browser sends with the click.
ClickStart ==
    \E u \in Urls :
        \E fetched \in (IF strip(u) = <<>> THEN {None}
                        ELSE {get_video_info(raw) : raw \in Extracts(u)}) :
            script_run("start", u, format_choice, select_all, multiselect,
                       processed_files, fetched, NoDownload)

\* The user picks another format (line 148).
ChangeFormat ==
    /\ settings_rendered(video_info)
    /\ \E f \in Formats \ {format_choice} :
           script_run("format", url, f, select_all, multiselect,
                      clear_processed_cache(processed_files), None, NoDownload)

\* The user ticks or unticks the select-all checkbox (line 155).
ToggleSelectAll ==
    /\ settings_rendered(video_info)
    /\ script_run("select_all", url, format_choice, ~select_all, multiselect,
                  clear_processed_cache(processed_files), None, NoDownload)

\* The user changes the multiselect (line 161).
ChangeSelection ==
    /\ settings_rendered(video_info)
    /\ ~select_all
    /\ \E ms \in (SUBSET Range(all_langs(video_info))) \ {multiselect} :
           script_run("multiselect", url, format_choice, select_all, ms,
                      clear_processed_cache(processed_files), None, NoDownload)

\* The user clicks Process Subtitles (line 170).
ClickProcess ==
    /\ settings_rendered(video_info)
    /\ selected_langs # <<>>
    /\ \E dl \in Downloads(url, Range(selected_lang_codes(video_info, selected_langs)),
                           target_ext(format_choice)) :
           script_run("process", url, format_choice, select_all, multiselect,
                      processed_files, None, dl)

\* A run that no widget of the model triggers: the appearance radio (line
\* 13) or a click on a download button.
Rerun ==
    script_run("rerun", url, format_choice, select_all, multiselect, processed_files,
               None, NoDownload)

\* No catalog built yet.
Pending == [pending |-> TRUE]

\* The session after the first script run of a new session (lines 98-111
\* with an empty text input).
InitSession ==
    /\ url = <<>>
    /\ format_choice = DefaultFormat
    /\ select_all = FALSE
    /\ multiselect = {}
    /\ video_info = None
    /\ last_url = <<>>
    /\ processed_files = NoFiles
    /\ page = BlankPage
    /\ produced_from = None
    /\ download_result = None
    /\ last_run = [trigger |-> "session", prior |-> "empty"]

Init == InitSession /\ extracted = None /\ catalog = Pending

Next ==
    \/ EditUrl
    \/ ClickStart
    \/ ChangeFormat
    \/ ToggleSelectAll
    \/ ChangeSelection
    \/ ClickProcess
    \/ Rerun

Spec == Init /\ [][Next]_vars

----------------------------------------------------------------------------
(* The catalog builder on its own: get_video_info applied to any answer of *)
(* the metadata collaborator.                                              *)

\* The insertion-ordered dicts lang -> tracks over the languages S, in any
\* order, each first track with or without a 'name' key.
TrackDicts ==
    UNION {{[i \in 1..Cardinality(S) |->
                IF named[p[i]] THEN [lang |-> p[i], name |-> NameOf(p[i])]
                ELSE [lang |-> p[i]]] :
              p \in Perms(S), named \in [S -> BOOLEAN]} : S \in SUBSET Langs}

CatalogInputs ==
    {None} \cup {[id |-> "v1", title |-> TitleOf("v1"), subtitles |-> m,
                  automatic_captions |-> a] : m \in TrackDicts, a \in TrackDicts}

InitCatalog == InitSession /\ extracted \in CatalogInputs /\ catalog = Pending

BuildCatalog ==
    /\ catalog = Pending
    /\ catalog' = get_video_info(extracted)
    /\ UNCHANGED <<url, format_choice, select_all, multiselect, video_info, last_url,
                   processed_files, page, produced_from, download_result, last_run,
                   extracted>>

NextCatalog == BuildCatalog

SpecCatalog == InitCatalog /\ [][NextCatalog]_vars

----------------------------------------------------------------------------
(* Properties *)

\* The extension the specification gives each output format.
ExpectedExt(fmt) ==
    CASE fmt = "SRT (SubRip - Recommended)" -> "srt"
      [] fmt = "Raw (VTT - Original)"       -> "vtt"
      [] fmt = "Text Only (No Timestamps)"  -> "txt"

\* "{sanitized title}.{ext}"
PlainName(title, ext) == clean_filename(title) \o <<".", ext>>

\* "{sanitized title} [{code}].{ext}"
SuffixedName(title, code, ext) == clean_filename(title) \o <<" [", code, "].", ext>>

\* Whether the download button offers exactly the one stored file, standalone.
OfferedStandalone ==
    /\ page.download # None
    /\ page.download.kind = "file"
    /\ page.download.file_name = processed_files[1].name

\* C1, as stated: the naming rule follows the number of files produced.  A
\* single produced file is named "{title}.{ext}" and delivered standalone,
\* however many languages were selected; two or more carry " [{code}]".
C1_NamedByProducedCount ==
    processed_files # NoFiles =>
        LET title == produced_from.info.title
            ext   == ExpectedExt(produced_from.format)
        IN  /\ Len(processed_files) = 1 =>
                   /\ processed_files[1].name = PlainName(title, ext)
                   /\ OfferedStandalone
            /\ Len(processed_files) > 1 =>
                   \A i \in 1..Len(processed_files) :
                       \E c \in Langs : processed_files[i].name = SuffixedName(title, c, ext)

\* C1, amended: the naming rule follows the number of languages selected in
\* the run.  One selected language gives one file named "{title}.{ext}"; two
\* or more give every produced file the " [{code}]" suffix, also when only
\* one file is produced; a single produced file is delivered standalone
\* under the name it was given.
C1_NamedBySelectedCount ==
    processed_files # NoFiles =>
        LET title == produced_from.info.title
            ext   == ExpectedExt(produced_from.format)
            n     == Len(produced_from.selected)
        IN  /\ n = 1 =>
                   /\ Len(processed_files) = 1
                   /\ processed_files[1].name = PlainName(title, ext)
            /\ n > 1 =>
                   \A i \in 1..Len(processed_files) :
                       \E c \in Langs : processed_files[i].name = SuffixedName(title, c, ext)
            /\ Len(processed_files) = 1 => OfferedStandalone

\* Two languages or more were selected, one file was produced, and it is
\* offered standalone under a suffixed name.
C1_Witness ==
    /\ processed_files # NoFiles
    /\ Len(produced_from.selected) > 1
    /\ Len(processed_files) = 1
    /\ OfferedStandalone
    /\ \E c \in Langs : processed_files[1].name =
           SuffixedName(video_info.title, c, ExpectedExt(format_choice))

\* C2: a run whose link differs from last_url records the new link, leaves
\* no processed output, offers no download, and holds no metadata but what
\* that same run fetched for the new link.
C2_UrlChangeResets ==
    [][url' # last_url =>
          /\ last_url' = url'
          /\ processed_files' = NoFiles
          /\ ~page'.success
          /\ page'.download = None
          /\ \/ video_info' = None /\ ~page'.metadata
             \/ /\ last_run'.trigger = "start"
                /\ video_info'.id = VideoId(url')]_vars

\* The link was edited in a processed session, which is empty now.
C2_Witness ==
    /\ last_run.trigger = "url"
    /\ last_run.prior = "processed"
    /\ url # <<>>
    /\ last_url = url
    /\ video_info = None
    /\ processed_files = NoFiles

\* C3: a run triggered by the format radio, the select-all checkbox or the
\* multiselect clears processed_files and changes neither video_info, which
\* stays loaded, nor last_url.
C3_WidgetChangeClearsOutputOnly ==
    [][last_run'.trigger \in {"format", "select_all", "multiselect"} =>
          /\ processed_files' = NoFiles
          /\ video_info # None
          /\ video_info' = video_info
          /\ last_url' = last_url]_vars

\* A widget was changed in a processed session, which is metadata-loaded now.
C3_Witness ==
    /\ last_run.trigger \in {"format", "select_all", "multiselect"}
    /\ last_run.prior = "processed"
    /\ video_info # None
    /\ processed_files = NoFiles

\* The labels the specification composes for a track.
ManualLabel(t) ==
    (IF "name" \in DOMAIN t THEN t.name ELSE <<t.lang>>) \o <<" (", t.lang, ")">>

AutoLabel(t) == ManualLabel(t) \o <<" [Auto-generated]">>

\* How many catalog entries carry the label.
LabelCount(subs, label) == Cardinality({i \in 1..Len(subs) : subs[i].label = label})

\* C4: in the catalog built from any manual and automatic track sets, a
\* code in both sets has its manual label and not its auto-generated label,
\* a code in one set has that set's label exactly once, each label maps to
\* its code, and no code is the value of two labels.
C4_CatalogPrefersManual ==
    (catalog # Pending /\ catalog # None) =>
        LET subs   == catalog.available_subs
            manual == extracted.subtitles
            auto   == extracted.automatic_captions
            mlangs == {manual[i].lang : i \in 1..Len(manual)}
        IN  /\ \A i \in 1..Len(manual) :
                   /\ LabelCount(subs, ManualLabel(manual[i])) = 1
                   /\ \A k \in 1..Len(subs) :
                          subs[k].label = ManualLabel(manual[i]) => subs[k].lang = manual[i].lang
            /\ \A j \in 1..Len(auto) :
                   IF auto[j].lang \in mlangs
                   THEN LabelCount(subs, AutoLabel(auto[j])) = 0
                   ELSE /\ LabelCount(subs, AutoLabel(auto[j])) = 1
                        /\ \A k \in 1..Len(subs) :
                               subs[k].label = AutoLabel(auto[j]) => subs[k].lang = auto[j].lang
            /\ \A k, l \in 1..Len(subs) : subs[k].lang = subs[l].lang => k = l
            /\ Len(subs) = Cardinality(mlangs \cup {auto[j].lang : j \in 1..Len(auto)})

\* A catalog built from sets that share one code and differ in another.
C4_Witness ==
    /\ catalog # Pending
    /\ catalog # None
    /\ \E i \in 1..Len(extracted.subtitles), j \in 1..Len(extracted.automatic_captions) :
           extracted.subtitles[i].lang = extracted.automatic_captions[j].lang
    /\ \E j \in 1..Len(extracted.automatic_captions) :
           \A i \in 1..Len(extracted.subtitles) :
               extracted.subtitles[i].lang # extracted.automatic_captions[j].lang

\* Whether data is the caption text of the track of language c.
IsTrackOf(data, c) == \E i \in 1..Len(data) : c \in Range(data[i])

\* C5: in a run over two or more selected languages where the fetch of one
\* fails and the others succeed, no error ends the run and a file of each
\* succeeding track is stored.
C5_FailureIsolated ==
    (/\ download_result # None
     /\ Cardinality(download_result.selected) >= 2
     /\ Cardinality(download_result.selected \ download_result.written) = 1) =>
        /\ page.process_error = "none"
        /\ \A c \in download_result.written :
               \E i \in 1..Len(processed_files) :
                   /\ processed_files[i].name =
                          SuffixedName(video_info.title, c, ExpectedExt(format_choice))
                   /\ IsTrackOf(processed_files[i].data, c)

\* C6: nothing is offered when nothing is stored; one stored file is
\* offered standalone under its own name as text/plain; two or more are
\* offered as one deflate archive "{sanitized title}_Subtitles.zip" whose
\* entries are the stored (name, bytes) pairs in their order.
C6_DeliveryByFileCount ==
    /\ processed_files = NoFiles => (page.download = None /\ ~page.success)
    /\ Len(processed_files) = 1 =>
           page.download = [kind |-> "file",
                            file_name |-> processed_files[1].name,
                            data |-> processed_files[1].data,
                            mime |-> "text/plain"]
    /\ Len(processed_files) >= 2 =>
           page.download = [kind |-> "zip",
                            file_name |-> clean_filename(video_info.title)
                                          \o <<"_Subtitles.zip">>,
                            data |-> [compression |-> "deflate",
                                      entries |-> processed_files],
                            mime |-> "application/zip"]

\* Two files or more are stored and an archive is offered.
C6_Witness ==
    /\ Len(processed_files) >= 2
    /\ page.download # None
    /\ page.download.kind = "zip"
    /\ Len(page.download.data.entries) = Len(processed_files)

\* C7: when more than one file is stored, each is named
\* "{sanitized title} [{code}].{ext}" with the code of the track its bytes
\* come from, and no two stored files have the same name.
C7_SuffixedNamesDistinct ==
    Len(processed_files) > 1 =>
        /\ \A i \in 1..Len(processed_files) :
               \E c \in Langs :
                   /\ processed_files[i].name =
                          SuffixedName(video_info.title, c, ExpectedExt(format_choice))
                   /\ IsTrackOf(processed_files[i].data, c)
        /\ \A i, j \in 1..Len(processed_files) :
               processed_files[i].name = processed_files[j].name => i = j

\* Every language of a catalog of two or more was selected and produced.
C7_Witness ==
    /\ Len(processed_files) > 1
    /\ select_all
    /\ Len(processed_files) = Len(video_info.available_subs)

\* C8, as stated: after a Start click whose fetch fails the session holds
\* no metadata and no processed output, and the run renders neither.
C8_FailedFetchLeavesNothing ==
    page.fetch_error =>
        /\ video_info = None
        /\ processed_files = NoFiles
        /\ ~page.metadata
        /\ page.download = None

\* C8, amended: a Start click whose fetch fails changes nothing itself; the
\* session holds what the link check of that run left: nothing when the link
\* differs from last_url, and otherwise what it held before the click.
C8_FailedFetchChangesNothing ==
    [][page'.fetch_error =>
          /\ last_run'.trigger = "start"
          /\ IF url' # last_url
             THEN video_info' = None /\ processed_files' = NoFiles
             ELSE video_info' = video_info /\ processed_files' = processed_files
          /\ page'.metadata = (video_info' # None)
          /\ page'.success = (processed_files' # NoFiles)]_vars

\* A fetch failed in a processed session, which still holds its metadata
\* and its files and offers them.
C8_Witness ==
    /\ page.fetch_error
    /\ last_run.prior = "processed"
    /\ video_info # None
    /\ processed_files # NoFiles
    /\ page.download # None

\* C9: a run whose Process click produces no file or raises reports an
\* error and shows no success message and no download.
C9_FailureOffersNothing ==
    page.process_error # "none" => (~page.success /\ page.download = None)

\* C10: at the end of every run, stored files come from the recorded link,
\* the loaded metadata, the chosen format and the shown selection.
C10_NoStaleOutput ==
    processed_files # NoFiles =>
        /\ video_info # None
        /\ url = last_url
        /\ produced_from.url = last_url
        /\ produced_from.info = video_info
        /\ produced_from.format = format_choice
        /\ produced_from.selected = selected_langs
        /\ page.download # None

\* Stored files outlived a run that did not produce them.
C10_Witness ==
    /\ processed_files # NoFiles
    /\ last_run.prior = "processed"
    /\ last_run.trigger \in {"start", "process", "rerun"}
    /\ download_result = None \/ download_result.raised

====
